---- MODULE Spec2Model ----
(***************************************************************************)
(* A model of clink's Windows terminal layer (win_terminal.cpp): the input *)
(* ring buffer, the key-event encoder, the escape-code renderer and the    *)
(* session's begin/end life cycle.                                         *)
(*                                                                         *)
(* Bytes, code units, virtual keys, scan codes and console modes are       *)
(* integers.  Each part of the layer has its own specification over the    *)
(* same variables:                                                         *)
(*   SpecRing  push and pop applied to the ring buffer in any order        *)
(*   SpecIn    select, read and the console's input records                *)
(*   SpecOut   write and flush on a session that has begun                 *)
(*   SpecSgr   write_sgr applied to every current attribute                *)
(*   Spec      check_c1_support, begin, the session's operations, end      *)
(*   SpecSession  the same on one console                                  *)
(* and the Lua side of clink has its own:                                  *)
(*   SpecGen   generator.lua: registering generators, clink._generate      *)
(*   SpecExec  lua_exec.cpp: one lua_execute call, its watcher thread and  *)
(*             the child process; SpecExecFair adds the scheduling         *)
(*   SpecLines the line table lua_execute makes of a child's output        *)
(***************************************************************************)
EXTENDS Integers, Sequences, FiniteSets, TLC

VARIABLES
    m_buffer,        \* win_terminal_in::m_buffer, slot index -> byte
    m_buffer_head,   \* win_terminal_in::m_buffer_head
    m_buffer_count,  \* win_terminal_in::m_buffer_count
    written,         \* history: the slots of m_buffer that push has written
    fifo,            \* history: bytes push wrote that pop has not returned yet
    npush,           \* history: number of push calls made (bounds SpecRing)
    g_altgr,         \* the setting terminal.altgr
    pending,         \* the console's input queue: records not read yet
    pc,              \* "idle", or "select" inside select's read_console
    sel,             \* history: records the running select has consumed
    nevents,         \* history: records the console has delivered
    g_last_buffer_size, \* the static g_last_buffer_size
    m_state,         \* win_terminal::m_state: the sequence read in part
    m_attr,          \* win_terminal_out::m_attr
    m_default_attr,  \* win_terminal_out::m_default_attr
    m_enable_c1,     \* win_terminal::m_enable_c1
    con_out,         \* the console: the UTF-16 units WriteConsoleW was given
    con_attr,        \* the console: its text attribute (wAttributes)
    codes,           \* history: the codes the scanner has classified
    fed,             \* history: the bytes given to write so far
    cuts_in_seq,     \* history: every write so far ended inside a sequence
    nwrites,         \* history: number of write (or write_sgr) calls made
    con_in_mode,     \* the console: the mode of its input handle
    con_out_mode,    \* the console: the mode of its output handle
    loaded,          \* the modules loaded in the process
    g_ansi,          \* the setting terminal.ansi
    active,          \* between begin() and end()
    in_prev_mode,    \* win_terminal_in::m_prev_mode
    out_prev_mode,   \* win_terminal_out::m_prev_mode
    pre,             \* history: the console's state when begin() was called
    nops,            \* history: number of session operations made in Spec
    generators,      \* generator.lua: _generators
    generators_unsorted, \* generator.lua: _generators_unsorted
    current_builder, \* generator.lua: _current_builder
    gpc,             \* "idle", or "generate" inside clink._generate's loop
    gnext,           \* the index ipairs has reached in the running _generate
    invoked,         \* history: generators invoked by the last _generate call
    builders,        \* the match builders: builder -> matches and files flag
    ngenerate,       \* history: number of clink._generate calls begun
    epc,             \* lua_execute: where its thread is
    wpc,             \* thread_proc: where the watcher thread is
    child,           \* the process lua_execute launched
    stdout_open,     \* the child holds its end of the stdout pipe open
    in_job,          \* the child was assigned to the job object
    opened,          \* history: the handles lua_execute has opened
    closes,          \* history: handle -> number of CloseHandle calls on it
    nret,            \* the number of Lua values lua_execute returned
    proc_ret,        \* lua_execute: proc_ret
    einput,          \* history: the arguments and API results of the call
    output,          \* history: what the child wrote to its stdout
    exec_buffer,     \* lua_execute: the bytes of buffer, zero terminated
    line,            \* lua_execute: line, an index into buffer, 0 if null
    lines,           \* the Lua table: key k holds lines[k]
    lpc,             \* where the line extraction is
    last             \* history: the last operation, its inputs and its result

ringVars == <<m_buffer, m_buffer_head, m_buffer_count, written, fifo>>
inVars == <<g_altgr, pending, pc, sel, nevents, g_last_buffer_size>>
outVars == <<m_state, m_attr, m_default_attr, m_enable_c1, con_out, con_attr,
             codes, fed, cuts_in_seq, nwrites>>
hostVars == <<con_in_mode, con_out_mode, loaded, g_ansi, active, in_prev_mode,
              out_prev_mode, pre>>
genVars == <<generators, generators_unsorted, current_builder, gpc, gnext,
             invoked, builders, ngenerate>>
execVars == <<epc, wpc, child, stdout_open, in_job, opened, closes, nret,
              proc_ret, einput>>
lineVars == <<output, exec_buffer, line, lines, lpc>>
luaVars == <<genVars, execVars, lineVars>>
termVars == <<ringVars, npush, inVars, outVars, hostVars, nops>>
genRest == <<termVars, execVars, lineVars>>
execRest == <<termVars, genVars, lineVars>>
lineRest == <<termVars, genVars, execVars>>
vars == <<m_buffer, m_buffer_head, m_buffer_count, written, fifo, npush,
          g_altgr, pending, pc, sel, nevents, g_last_buffer_size,
          m_state, m_attr, m_default_attr, m_enable_c1, con_out, con_attr,
          codes, fed, cuts_in_seq, nwrites,
          con_in_mode, con_out_mode, loaded, g_ansi, active, in_prev_mode,
          out_prev_mode, pre, nops,
          generators, generators_unsorted, current_builder, gpc, gnext,
          invoked, builders, ngenerate,
          epc, wpc, child, stdout_open, in_job, opened, closes, nret,
          proc_ret, einput, output, exec_buffer, line, lines, lpc, last>>

----------------------------------------------------------------------------
(* Bounds of the model. *)

\* push calls in one behaviour of SpecRing
MaxPush == 5

\* input records the console delivers in one behaviour of SpecIn
MaxEvents == 2

\* input records the console holds unread at one time
MaxPending == 1

\* write calls in one behaviour of SpecOut
MaxWrites == 3

\* write_sgr calls in one behaviour of SpecSgr
MaxSgr == 1

\* select, read, write and flush calls in one behaviour of Spec
MaxOps == 3

\* generators registered in one behaviour of SpecGen
MaxGenerators == 2

\* clink._generate calls in one behaviour of SpecGen
MaxGenerate == 2

\* bytes of child output in SpecLines
MaxOut == 4

----------------------------------------------------------------------------
(* The ring buffer: win_terminal_in::push and win_terminal_in::pop. *)

\* sizeof_array(m_buffer); the member is declared in win_terminal.h
BufferSize == 8

\* static const unsigned char mask = sizeof_array(m_buffer) - 1
mask == BufferSize - 1

\* x & mask, for x >= 0 and mask = 2^k - 1
AndMask(x) == x % (mask + 1)

\* what pop returns for an empty buffer
PopEmpty == 255

\* values a slot of m_buffer that no push has written yet may read as
StaleBytes == {0, 204}

\* to_utf8(utf8, 8, wc) for the single UTF-16 unit wc[0] = (wchar_t)value:
\* the bytes written; their number is the function's result n
to_utf8(value) ==
    LET wc == value % 65536 IN
    IF wc < 128 THEN <<wc>>
    ELSE IF wc < 2048 THEN <<192 + (wc \div 64), 128 + (wc % 64)>>
    ELSE <<224 + (wc \div 4096), 128 + ((wc \div 64) % 64), 128 + (wc % 64)>>

\* the ring as one value, as the methods of win_terminal_in see it
Ring == [buffer |-> m_buffer, head |-> m_buffer_head,
         count |-> m_buffer_count, written |-> written, fifo |-> fifo]

\* the slots index & mask of n bytes stored from index on
Slots(index, n) == {AndMask(index + i - 1) : i \in 1..n}

\* for (i = 0; i < n; ++i, ++index) m_buffer[index & mask] = utf8[i]
StoreBytes(buffer, index, bytes) ==
    [s \in 0..mask |->
        IF \E i \in 1..Len(bytes) : AndMask(index + i - 1) = s
        THEN bytes[CHOOSE i \in 1..Len(bytes) : AndMask(index + i - 1) = s]
        ELSE buffer[s]]

\* a push that stores the low byte of every value as it is
push_low_byte(r, value) ==
    IF r.count >= BufferSize THEN r
    ELSE [r EXCEPT !.buffer[AndMask(r.head + r.count)] = value % 256,
                   !.count = (r.count + 1) % 256,
                   !.written = r.written \cup Slots(r.head + r.count, 1),
                   !.fifo = Append(r.fifo, value % 256)]

\* win_terminal_in::push
push(r, value) ==
    IF r.count >= BufferSize THEN r
    ELSE
        LET index == r.head + r.count IN
        IF value < 128
        THEN [r EXCEPT !.buffer[AndMask(index)] = value,
                       !.count = (r.count + 1) % 256,
                       !.written = r.written \cup Slots(index, 1),
                       !.fifo = Append(r.fifo, value)]
        ELSE
            LET utf8 == to_utf8(value)
                n == Len(utf8)
            IN  IF n <= mask - r.count
                THEN [r EXCEPT !.buffer = StoreBytes(r.buffer, index, utf8),
                               !.count = (r.count + n) % 256,
                               !.written = r.written \cup Slots(index, n),
                               !.fifo = r.fifo \o utf8]
                ELSE [r EXCEPT !.count = (r.count + n) % 256]

\* the values win_terminal_in::pop may return for the ring r
pop_values(r) ==
    IF r.count = 0 THEN {PopEmpty}
    ELSE IF r.head \notin r.written THEN StaleBytes
    ELSE {r.buffer[r.head]}

\* a pop that takes the byte and leaves m_buffer_head where it is
pop_ring_keeps_head(r) ==
    IF r.count = 0 THEN r
    ELSE [r EXCEPT !.count = r.count - 1,
                   !.fifo = IF r.fifo = <<>> THEN <<>> ELSE Tail(r.fifo)]

\* win_terminal_in::pop: the ring it leaves
pop_ring(r) ==
    IF r.count = 0 THEN r
    ELSE [r EXCEPT !.count = r.count - 1,
                   !.head = AndMask(r.head + 1),
                   !.fifo = IF r.fifo = <<>> THEN <<>> ELSE Tail(r.fifo)]

\* history: the byte a faithful FIFO hands out next, if it holds one
due(r) == IF r.fifo = <<>> THEN <<>> ELSE <<Head(r.fifo)>>

SetRing(r) ==
    /\ m_buffer' = r.buffer
    /\ m_buffer_head' = r.head
    /\ m_buffer_count' = r.count
    /\ written' = r.written
    /\ fifo' = r.fifo

\* values pushed in SpecRing: 'A', U+00E9 (2 bytes), U+20AC (3 bytes)
PushValues == {65, 233, 8364}

InitRing ==
    /\ m_buffer = [s \in 0..mask |-> 0]
    /\ m_buffer_head = 0
    /\ m_buffer_count = 0
    /\ written = {}
    /\ fifo = <<>>

\* one call of push on the ring
Push(value) ==
    /\ npush < MaxPush
    /\ npush' = npush + 1
    /\ SetRing(push(Ring, value))
    /\ last' = [op |-> "push", value |-> value, before |-> m_buffer_count]
    /\ UNCHANGED <<inVars, outVars, hostVars>>

\* one call of pop on the ring
Pop ==
    /\ \E c \in pop_values(Ring) :
          last' = [op |-> "pop", val |-> c, due |-> due(Ring),
                   before |-> m_buffer_count]
    /\ SetRing(pop_ring(Ring))
    /\ UNCHANGED <<npush, inVars, outVars, hostVars>>

InitLast == last = [op |-> "none"]

\* ENABLE_WINDOW_INPUT
ENABLE_WINDOW_INPUT == 8

\* the match builders a caller may pass to clink._generate
\* the match builders: the host makes a new one for each clink._generate,
\* the n-th call's being n
Builders == 1..MaxGenerate

\* _current_builder = nil
NoBuilder == 0

\* generator.lua as loaded: no generator registered, no current builder
InitGen ==
    /\ generators = <<>>
    /\ generators_unsorted = FALSE
    /\ current_builder = NoBuilder
    /\ gpc = "idle"
    /\ gnext = 0
    /\ invoked = <<>>
    /\ builders = [b \in Builders |-> [matches |-> {}, files |-> "unset"]]
    /\ ngenerate = 0

\* the Lua side of the process before any script has run
\* the handles of lua_execute: the job, the process and its primary thread
\* (pi.hProcess, pi.hThread), the watcher thread, and the two ends of
\* pipe_stdout, pipe_stderr and pipe_stdin
Handles == {"job", "process", "pthread", "thread", "out_read", "out_write",
            "err_read", "err_write", "in_read", "in_write"}

\* lua_execute not called yet
InitExec ==
    /\ epc = "idle"
    /\ wpc = "none"
    /\ child = "none"
    /\ stdout_open = FALSE
    /\ in_job = FALSE
    /\ opened = {}
    /\ closes = [h \in Handles |-> 0]
    /\ nret = 0
    /\ proc_ret = "unset"
    /\ einput = [arg |-> "none"]

\* no output read yet
InitLines ==
    /\ output = <<>>
    /\ exec_buffer = <<>>
    /\ line = 0
    /\ lines = <<>>
    /\ lpc = "idle"

InitLua == InitGen /\ InitExec /\ InitLines

\* a console and process as begin() leaves them: the input mode replaced, no
\* known ANSI module loaded, the settings at their defaults
InitHost ==
    /\ con_in_mode = ENABLE_WINDOW_INPUT
    /\ con_out_mode = 3
    /\ loaded = {"kernel32.dll"}
    /\ g_ansi = TRUE
    /\ active = TRUE
    /\ in_prev_mode = 487
    /\ out_prev_mode = 3
    /\ pre = [in_mode |-> 487, out_mode |-> 3, attr |-> 7]
    /\ nops = 0
    /\ InitLua

\* the output side of a session right after begin() on a console whose
\* attribute is light grey on black
InitOut ==
    /\ m_state = <<>>
    /\ m_default_attr = 7
    /\ m_attr = m_default_attr
    /\ con_attr = m_default_attr
    /\ m_enable_c1 = TRUE
    /\ con_out = <<>>
    /\ codes = <<>>
    /\ fed = <<>>
    /\ cuts_in_seq = TRUE
    /\ nwrites = 0

\* the input side of a session right after begin()
InitIn ==
    /\ g_last_buffer_size = 0
    /\ pending = <<>>
    /\ pc = "idle"
    /\ sel = 0
    /\ nevents = 0

RingInit ==
    /\ InitRing /\ InitIn /\ g_altgr = TRUE /\ InitOut /\ npush = 0
    /\ InitLast /\ InitHost

RingNext ==
    /\ (\E value \in PushValues : Push(value)) \/ Pop
    /\ UNCHANGED <<nops, luaVars>>

SpecRing == RingInit /\ [][RingNext]_vars

----------------------------------------------------------------------------
(* The key-event encoder: win_terminal_in::read_console, select and read.  *)
(* An input record is [type, down, ch, vk, sc, flags]: EventType,          *)
(* bKeyDown, uChar.UnicodeChar, wVirtualKeyCode, wVirtualScanCode and the  *)
(* set of bits of dwControlKeyState.                                       *)

\* LEFT_CTRL_PRESSED|RIGHT_CTRL_PRESSED
CTRL_PRESSED == {"LEFT_CTRL_PRESSED", "RIGHT_CTRL_PRESSED"}

\* LEFT_ALT_PRESSED|RIGHT_ALT_PRESSED
ALT_PRESSED == {"LEFT_ALT_PRESSED", "RIGHT_ALT_PRESSED"}

\* key_flags & bits
Has(key_flags, bits) == key_flags \cap bits # {}

\* VK_MENU, the Alt key
VK_MENU == 18

\* enhanced_vks with nothing in it: no key is inferred to be enhanced
enhanced_vks_none == {}

\* VK_UP, VK_DOWN, VK_LEFT, VK_RIGHT, VK_HOME, VK_END, VK_INSERT, VK_DELETE,
\* VK_PRIOR, VK_NEXT
enhanced_vks == {38, 40, 37, 39, 36, 35, 45, 46, 33, 34}

\* scan code, unshifted character, shifted character
mod_map == <<
    <<72, 65, 97>>,     \* 'H', 'A', 'a'   up
    <<80, 66, 98>>,     \* 'P', 'B', 'b'   down
    <<75, 68, 100>>,    \* 'K', 'D', 'd'   left
    <<77, 67, 99>>,     \* 'M', 'C', 'c'   right
    <<82, 50, 119>>,    \* 'R', '2', 'w'   insert
    <<83, 51, 101>>,    \* 'S', '3', 'e'   delete
    <<71, 49, 113>>,    \* 'G', '1', 'q'   home
    <<79, 52, 114>>,    \* 'O', '4', 'r'   end
    <<73, 53, 116>>,    \* 'I', '5', 't'   pgup
    <<81, 54, 121>> >>  \* 'Q', '6', 'y'   pgdn

\* the Ctrl-<key> chain: does one of its branches take key_vk?
ctrl_maps(key_vk) ==
    \/ key_vk >= 65 /\ key_vk <= 90
    \/ key_vk >= 219 /\ key_vk <= 221
    \/ key_vk \in {50, 54, 189}

\* the Ctrl-<key> chain: the value key_vk is left with
ctrl_vk(key_vk) ==
    IF key_vk >= 65 /\ key_vk <= 90 THEN key_vk - (65 - 1)
    ELSE IF key_vk >= 219 /\ key_vk <= 221 THEN key_vk - (219 - 27)
    ELSE IF key_vk = 50 THEN 0
    ELSE IF key_vk = 54 THEN 30
    ELSE 31

\* the value the Ctrl-<key> branch hands to push
ctrl_pushed(key_char, key_vk) == key_char

\* read_console returned after its pushes
Returned(r) == [ring |-> r, returned |-> TRUE]

\* a read_console that returns where it should call itself
Again_returns(r) == [ring |-> r, returned |-> TRUE]

\* read_console called itself: it reads the next record
Again(r) == [ring |-> r, returned |-> FALSE]

\* win_terminal_in::read_console from the record ReadConsoleInputW gave it
read_console(r, record, altgr) ==
    IF record.type # "KEY_EVENT" THEN Again(r)
    ELSE
    LET key_vk == record.vk
        key_sc == record.sc
        altgr_sub0 == /\ "LEFT_ALT_PRESSED" \in record.flags
                      /\ Has(record.flags, CTRL_PRESSED)
                      /\ record.ch # 0
        cleared == altgr_sub0 /\ ~altgr
        altgr_sub == altgr_sub0 /\ ~cleared
        key_char == IF cleared THEN 0 ELSE record.ch
        alt == ~altgr_sub /\ Has(record.flags, ALT_PRESSED)
        key_flags == IF key_char = 0 /\ key_vk \in enhanced_vks
                     THEN record.flags \cup {"ENHANCED_KEY"}
                     ELSE record.flags
        rows == {i \in 1..Len(mod_map) : mod_map[i][1] = key_sc}
    IN
    IF ~record.down
    THEN IF key_vk = VK_MENU /\ record.ch # 0
         THEN Returned(push(r, record.ch))
         ELSE Again(r)
    ELSE IF key_char = 0
    THEN IF "ENHANCED_KEY" \in key_flags
         THEN IF rows # {}
              THEN LET i == CHOOSE k \in rows : \A l \in rows : k <= l
                       j == 2 + (IF "SHIFT_PRESSED" \in key_flags THEN 1 ELSE 0)
                   IN  Returned(push(push(push(r, 27),
                                IF Has(key_flags, CTRL_PRESSED) THEN 79 ELSE 91),
                                mod_map[i][j]))
              ELSE Again(r)
         ELSE IF ~Has(key_flags, CTRL_PRESSED) THEN Again(r)
         ELSE IF ~ctrl_maps(key_vk) THEN Again(r)
         ELSE Returned(push(r, ctrl_pushed(key_char, ctrl_vk(key_vk))))
    ELSE IF key_char = 9 /\ r.count = 0 /\ "SHIFT_PRESSED" \in key_flags
    THEN Returned(push(push(push(r, 27), 91), 90))
    ELSE Returned(push(IF alt THEN push(r, 27) ELSE r, key_char))

\* select calling read_console whatever the buffer holds
select_reads_always(count) == TRUE

\* win_terminal_in::select: does it call read_console?
select_reads(count) == count = 0

\* read handing on pop's value as it is
read_result_raw(c) == c

\* win_terminal_in::read: the value returned for what pop gave
read_result(c) == IF c # PopEmpty THEN c ELSE 4

Key(down, ch, vk, sc, flags) ==
    [type |-> "KEY_EVENT", down |-> down, ch |-> ch, vk |-> vk, sc |-> sc,
     flags |-> flags]

\* a record that is no key event (mouse, focus, menu, window size)
OtherRecord ==
    [type |-> "OTHER", down |-> FALSE, ch |-> 0, vk |-> 0, sc |-> 0,
     flags |-> {}]

\* Ctrl with a letter key, no Unicode value (scan code 30 is no navigation
\* key); 64 and 91 are the virtual keys next to the range 'A'..'Z'
CtrlLetterRecords ==
    {Key(TRUE, 0, vk, 30, {"LEFT_CTRL_PRESSED"}) : vk \in {64, 65, 90, 91}}
    \cup {Key(TRUE, 0, 66, 30, f) :
            f \in {{"RIGHT_CTRL_PRESSED"},
                   {"LEFT_CTRL_PRESSED", "LEFT_ALT_PRESSED"},
                   {"LEFT_CTRL_PRESSED", "ENHANCED_KEY"}}}

\* Ctrl with the other keys of the chain, and with F1, which it does not map
CtrlOtherRecords ==
    {Key(TRUE, 0, vk, 26, {"LEFT_CTRL_PRESSED"}) :
        vk \in {219, 50, 54, 189, 112}}

\* the virtual keys of the rows of mod_map, in its order
nav_vks == <<38, 40, 37, 39, 45, 46, 36, 35, 33, 34>>

\* the ten navigation keys, and the key of scan code 'H' as VK_NUMPAD8 (the
\* numeric keypad's 8 with NumLock on), which arrives without ENHANCED_KEY
NavRecords ==
    {Key(TRUE, 0, nav_vks[i], mod_map[i][1], f) :
        i \in 1..Len(mod_map),
        f \in {{}, {"ENHANCED_KEY", "RIGHT_CTRL_PRESSED", "SHIFT_PRESSED"}}}
    \cup {Key(TRUE, 0, 38, 72, f) :
            f \in {{"LEFT_CTRL_PRESSED"}, {"LEFT_ALT_PRESSED"}}}
    \cup {Key(TRUE, 0, 104, 72, f) : f \in {{}, {"LEFT_CTRL_PRESSED"}}}

\* keys with a Unicode value: 'a', U+00E9, U+20AC
CharRecords ==
    {Key(TRUE, ch, 65, 30, {}) : ch \in {97, 233, 8364}}
    \cup {Key(TRUE, 8364, 65, 30, {"LEFT_ALT_PRESSED"}),
          Key(TRUE, 233, 65, 30, {"RIGHT_ALT_PRESSED", "RIGHT_CTRL_PRESSED"})}
    \cup {Key(TRUE, 97, 65, 30, f) :
            f \in {{"SHIFT_PRESSED"}, {"LEFT_ALT_PRESSED"},
                   {"RIGHT_ALT_PRESSED"},
                   {"LEFT_ALT_PRESSED", "LEFT_CTRL_PRESSED"}}}

\* the Tab key
TabRecords ==
    {Key(TRUE, 9, 9, 15, f) :
        f \in {{}, {"SHIFT_PRESSED"},
               {"SHIFT_PRESSED", "LEFT_ALT_PRESSED"},
               {"SHIFT_PRESSED", "LEFT_ALT_PRESSED", "LEFT_CTRL_PRESSED"}}}

\* key-up records, and a key-down that maps to nothing
UpRecords ==
    {Key(FALSE, ch, VK_MENU, 56, {}) : ch \in {0, 97}}
    \cup {Key(FALSE, 233, VK_MENU, 56,
              {"LEFT_ALT_PRESSED", "LEFT_CTRL_PRESSED", "SHIFT_PRESSED"}),
          Key(FALSE, 97, 65, 30, {}),
          Key(TRUE, 0, 16, 42, {"SHIFT_PRESSED"})}

\* the records the console delivers in SpecIn
Records ==
    {OtherRecord} \cup CtrlLetterRecords \cup CtrlOtherRecords \cup NavRecords
    \cup CharRecords \cup TabRecords \cup UpRecords

\* the console queues an input record
HostInput(record) ==
    /\ nevents < MaxEvents
    /\ Len(pending) < MaxPending
    /\ pending' = Append(pending, record)
    /\ nevents' = nevents + 1
    /\ UNCHANGED <<ringVars, npush, g_altgr, pc, sel, g_last_buffer_size, last,
                   outVars, hostVars>>

\* DWORD i = (csbi.dwSize.X << 16) | window rows, for a console of 80
\* columns and 25 rows that is not resized
buffer_size == 80 * 65536 + 25

\* win_terminal::select up to the first ReadConsoleInputW, if it makes one;
\* read_console first notes the console's size, and starts again if it is new
select ==
    /\ pc = "idle"
    /\ IF select_reads(m_buffer_count)
       THEN /\ pc' = "select"
            /\ sel' = 0
            /\ g_last_buffer_size' = buffer_size
            /\ last' = [op |-> "select_enter", before |-> m_buffer_count]
       ELSE /\ last' = [op |-> "select", before |-> m_buffer_count,
                        consumed |-> 0, record |-> OtherRecord,
                        fifo_before |-> fifo]
            /\ UNCHANGED <<pc, sel, g_last_buffer_size>>
    /\ UNCHANGED <<ringVars, npush, g_altgr, pending, nevents, outVars, hostVars>>

\* ReadConsoleInputW hands read_console one record; read_console either
\* returns, and select with it, or calls itself, finds the console's size as
\* it noted it, and reads again
ReadConsoleInput ==
    /\ pc = "select"
    /\ pending # <<>>
    /\ LET record == Head(pending)
           res == read_console(Ring, record, g_altgr)
       IN  /\ pending' = Tail(pending)
           /\ SetRing(res.ring)
           /\ IF res.returned
              THEN /\ pc' = "idle"
                   /\ sel' = 0
                   /\ last' = [op |-> "select", before |-> m_buffer_count,
                               consumed |-> sel + 1, record |-> record,
                               fifo_before |-> fifo]
              ELSE /\ pc' = "select"
                   /\ sel' = sel + 1
                   /\ last' = [op |-> "skip", record |-> record]
    /\ UNCHANGED <<npush, g_altgr, nevents, g_last_buffer_size, outVars,
                   hostVars>>

\* win_terminal::read; got and stored are history: the bytes the reads since
\* the last select took from the buffer, and the bytes that select left in it
read ==
    /\ pc = "idle"
    /\ UNCHANGED <<npush, inVars, outVars, hostVars>>
    /\ \E c \in pop_values(Ring) :
          last' = [op |-> "read", val |-> read_result(c),
                   before |-> m_buffer_count, due |-> due(Ring),
                   head_before |-> m_buffer_head, buffer_before |-> m_buffer,
                   got |-> (IF last.op = "read" THEN last.got ELSE <<>>)
                           \o (IF m_buffer_count = 0 THEN <<>>
                               ELSE <<read_result(c)>>),
                   stored |-> IF last.op = "read" THEN last.stored ELSE fifo,
                   pending_before |-> pending, pending_after |-> pending']
    /\ SetRing(pop_ring(Ring))

\* a session after begin(), for either value of the setting terminal.altgr
InInit ==
    /\ InitRing /\ InitIn /\ InitOut /\ npush = 0 /\ InitLast /\ InitHost
    /\ g_altgr \in BOOLEAN

InNext ==
    /\ \/ \E record \in Records : HostInput(record)
       \/ select
       \/ ReadConsoleInput
       \/ read
    /\ UNCHANGED <<nops, luaVars>>

SpecIn == InInit /\ [][InNext]_vars

----------------------------------------------------------------------------
(* The renderer: win_terminal::write, write_c0, write_c1, write_sgr and    *)
(* win_terminal_out.  The scanner ecma48_iter is not part of the sources   *)
(* at hand; it is modelled from its description: bytes below 0x20 are C0   *)
(* codes, ESC '[' starts a CSI sequence of digits and ';' ended by its     *)
(* final character, any other ESC pair is a C1 code, the rest is text, and *)
(* a sequence cut by the end of the input is kept in the state.            *)

\* x & y for x, y >= 0
RECURSIVE BitAnd(_, _)
BitAnd(x, y) ==
    IF x = 0 \/ y = 0 THEN 0
    ELSE (x % 2) * (y % 2) + 2 * BitAnd(x \div 2, y \div 2)

\* x | y for x, y >= 0
BitOr(x, y) == x + y - BitAnd(x, y)

\* x & 7 for an int x of either sign (two's complement)
And7(x) == x % 8

\* the bytes ESC, '[', ';', 'm' and the digits
IsDigit(c) == c >= 48 /\ c <= 57

\* a text run
CharsCode(bytes) == [type |-> "chars", code |-> 0, bytes |-> bytes]

\* a C0 control code
C0Code(c) == [type |-> "c0", code |-> c, bytes |-> <<c>>]

\* a C1 code: ESC and one byte, or a whole CSI sequence (code '[')
C1Code(c, bytes) == [type |-> "c1", code |-> c, bytes |-> bytes]

\* the codes so far, with the text run that ends here
EndRun(acc, run) == IF run = <<>> THEN acc ELSE Append(acc, CharsCode(run))

\* ecma48_iter::next until the input ends: the codes found and the state
\* left; seq is the sequence read in part, run the text run read so far
RECURSIVE Scan(_, _, _, _)
Scan(seq, run, chars, acc) ==
    IF chars = <<>> THEN [codes |-> EndRun(acc, run), state |-> seq]
    ELSE
        LET c == Head(chars)
            rest == Tail(chars)
        IN  IF seq = <<>>
            THEN IF c = 27 THEN Scan(<<27>>, <<>>, rest, EndRun(acc, run))
                 ELSE IF c < 32
                 THEN Scan(<<>>, <<>>, rest, Append(EndRun(acc, run), C0Code(c)))
                 ELSE Scan(<<>>, Append(run, c), rest, acc)
            ELSE IF Len(seq) = 1
            THEN IF c = 91 THEN Scan(<<27, 91>>, <<>>, rest, acc)
                 ELSE Scan(<<>>, <<>>, rest, Append(acc, C1Code(c, <<27, c>>)))
            ELSE IF IsDigit(c) \/ c = 59
                 THEN Scan(Append(seq, c), <<>>, rest, acc)
                 ELSE Scan(<<>>, <<>>, rest,
                           Append(acc, C1Code(91, Append(seq, c))))

\* ecma48_code::decode_csi: the final character
csi_final(bytes) == bytes[Len(bytes)]

\* ecma48_code::decode_csi: the parameters, an empty one being 0
RECURSIVE csi_params(_, _, _)
csi_params(bytes, param, acc) ==
    IF bytes = <<>> THEN Append(acc, param)
    ELSE IF Head(bytes) = 59 THEN csi_params(Tail(bytes), 0, Append(acc, param))
    ELSE csi_params(Tail(bytes), param * 10 + (Head(bytes) - 48), acc)

\* the parameters of the CSI sequence ESC '[' ... final, at most 32 of them
decode_csi(bytes) ==
    LET all == csi_params(SubSeq(bytes, 3, Len(bytes) - 1), 0, <<>>)
    IN  IF Len(all) <= 32 THEN all ELSE SubSeq(all, 1, 32)

\* to_utf16: the UTF-16 units of UTF-8 text (characters up to U+FFFF)
RECURSIVE to_utf16(_)
to_utf16(bytes) ==
    IF bytes = <<>> THEN <<>>
    ELSE LET b == Head(bytes) IN
         IF b >= 224 /\ Len(bytes) >= 3
         THEN <<(b - 224) * 4096 + (bytes[2] - 128) * 64 + (bytes[3] - 128)>>
              \o to_utf16(SubSeq(bytes, 4, Len(bytes)))
         ELSE IF b >= 192 /\ Len(bytes) >= 2
         THEN <<(b - 192) * 64 + (bytes[2] - 128)>>
              \o to_utf16(SubSeq(bytes, 3, Len(bytes)))
         ELSE <<b>> \o to_utf16(Tail(bytes))

\* the session as the methods of win_terminal see it
Session ==
    [state |-> m_state, attr |-> m_attr, default_attr |-> m_default_attr,
     enable_c1 |-> m_enable_c1, out |-> con_out, con_attr |-> con_attr,
     codes |-> codes, attr_calls |-> 0]

\* win_terminal_out::write(const char*, int) and write(const wchar_t*, int)
out_write(s, chars) == [s EXCEPT !.out = s.out \o to_utf16(chars)]

\* a set_attr that keeps the attribute and does not tell the console
set_attr_member_only(s, attr) ==
    [s EXCEPT !.attr = attr, !.attr_calls = s.attr_calls + 1]

\* win_terminal_out::set_attr
set_attr(s, attr) ==
    [s EXCEPT !.attr = attr, !.con_attr = attr, !.attr_calls = s.attr_calls + 1]

\* static const unsigned char sgr_to_attr[], indexed from 0
sgr_to_attr(i) == <<0, 4, 2, 6, 1, 5, 3, 7>>[i + 1]

\* param - base < 8, on ints
in_colour_range(param, base) == param - base < 8

\* one round of the loop of win_terminal::write_sgr: attr after param
sgr_param(attr, default_attr, param) ==
    IF param = 0 THEN default_attr
    ELSE IF param = 1 THEN BitOr(attr, 8)
    ELSE IF param = 2 \/ param = 22 THEN BitAnd(attr, 255 - 8)
    ELSE IF param = 4 THEN BitOr(attr, 128)
    ELSE IF param = 24 THEN BitAnd(attr, 255 - 128)
    ELSE IF in_colour_range(param, 30)
    THEN BitOr(BitAnd(attr, 248), sgr_to_attr(And7(param - 30)))
    ELSE IF in_colour_range(param, 90)
    THEN BitOr(BitAnd(BitOr(attr, 8), 248), sgr_to_attr(And7(param - 90)))
    ELSE IF param = 39
    THEN BitOr(BitAnd(attr, 248), BitAnd(default_attr, 7))
    ELSE IF in_colour_range(param, 40)
    THEN BitOr(BitAnd(attr, 143), sgr_to_attr(And7(param - 40)) * 16)
    ELSE IF in_colour_range(param, 100)
    THEN BitOr(BitAnd(BitOr(attr, 128), 143),
               sgr_to_attr(And7(param - 100)) * 16)
    ELSE IF param = 49
    THEN BitOr(BitAnd(attr, 143), BitAnd(default_attr, 112))
    ELSE attr

\* the loop of win_terminal::write_sgr over params
RECURSIVE sgr_attr(_, _, _)
sgr_attr(attr, default_attr, params) ==
    IF params = <<>> THEN attr
    ELSE sgr_attr(sgr_param(attr, default_attr, Head(params)), default_attr,
                  Tail(params))

\* win_terminal::write_sgr
write_sgr(s, params) == set_attr(s, sgr_attr(s.attr, s.default_attr, params))

\* a write_c1 that takes every CSI sequence for an SGR sequence
write_c1_any_final(s, code) ==
    IF ~s.enable_c1 THEN out_write(s, code.bytes)
    ELSE IF code.code # 91 THEN s
    ELSE write_sgr(s, decode_csi(code.bytes))

\* win_terminal::write_c1
write_c1(s, code) ==
    IF ~s.enable_c1 THEN out_write(s, code.bytes)
    ELSE IF code.code # 91 THEN s
    ELSE IF csi_final(code.bytes) = 109 THEN write_sgr(s, decode_csi(code.bytes))
    ELSE s

\* win_terminal::write_c0
write_c0(s, c0) == IF c0 = 7 THEN s ELSE [s EXCEPT !.out = Append(s.out, c0)]

\* the switch of win_terminal::write for one code
write_code(s, code) ==
    LET t == [s EXCEPT !.codes = Append(s.codes, code)] IN
    IF code.type = "chars" THEN out_write(t, code.bytes)
    ELSE IF code.type = "c0" THEN write_c0(t, code.code)
    ELSE write_c1(t, code)

\* the loop of win_terminal::write over the codes of one call
RECURSIVE write_codes(_, _)
write_codes(s, cs) ==
    IF cs = <<>> THEN s ELSE write_codes(write_code(s, Head(cs)), Tail(cs))

\* a scanner that starts every write call afresh
iter_state_fresh(state) == <<>>

\* the state a scanner starts from when write has m_state
iter_state(state) == state

\* win_terminal::write
write_chars(s, chars) ==
    LET scanned == Scan(iter_state(s.state), <<>>, chars, <<>>)
    IN  write_codes([s EXCEPT !.state = scanned.state], scanned.codes)

SetSession(s) ==
    /\ m_state' = s.state
    /\ m_attr' = s.attr
    /\ con_out' = s.out
    /\ con_attr' = s.con_attr
    /\ codes' = s.codes
    /\ UNCHANGED <<m_default_attr, m_enable_c1>>

\* the byte strings given to write in SpecOut
Chunks ==
    { <<97>>,                        \* a
      <<195, 169>>,                  \* U+00E9
      <<7>>,                         \* BEL
      <<10>>,                        \* LF
      <<27>>,                        \* ESC
      <<27, 91>>,                    \* ESC [
      <<27, 91, 51>>,                \* ESC [ 3
      <<91, 51>>,                    \* [ 3
      <<49, 109>>,                   \* 1 m
      <<109>>,                       \* m
      <<27, 91, 51, 49, 109>>,       \* ESC [ 3 1 m
      <<27, 91, 49, 59>>,            \* ESC [ 1 ;
      <<52, 52, 109, 97>>,           \* 4 4 m a
      <<27, 91, 50, 74>>,            \* ESC [ 2 J
      <<27, 99>>,                    \* ESC c
      <<97, 27, 91, 48, 109, 97>> }  \* a ESC [ 0 m a

\* one call of win_terminal::write
write(chars) ==
    /\ nwrites < MaxWrites
    /\ nwrites' = nwrites + 1
    /\ fed' = fed \o chars
    /\ cuts_in_seq' = (cuts_in_seq /\ (nwrites > 0 => m_state # <<>>))
    /\ LET s == write_chars(Session, chars)
       IN  /\ SetSession(s)
           /\ last' = [op |-> "write", chars |-> chars, attr_before |-> m_attr,
                       attr_calls |-> s.attr_calls, enabled |-> m_enable_c1,
                       ncodes_before |-> Len(codes)]
    /\ UNCHANGED <<ringVars, npush, inVars, hostVars>>

\* win_terminal::flush: the cursor is set to where it is
flush ==
    /\ last' = [op |-> "flush", attr_before |-> m_attr]
    /\ UNCHANGED <<ringVars, npush, inVars, outVars, hostVars>>

\* win_terminal::get_columns: csbi.dwSize.X
get_columns ==
    /\ last' = [op |-> "get_columns", val |-> buffer_size \div 65536]
    /\ UNCHANGED <<ringVars, npush, inVars, outVars, hostVars>>

\* win_terminal::get_rows: the rows of the console's window
get_rows ==
    /\ last' = [op |-> "get_rows", val |-> buffer_size % 65536]
    /\ UNCHANGED <<ringVars, npush, inVars, outVars, hostVars>>

\* a session after begin(), for either outcome of check_c1_support and two
\* console attributes
OutInit ==
    /\ InitRing /\ InitIn /\ g_altgr = TRUE /\ npush = 0 /\ InitLast
    /\ InitHost
    /\ m_state = <<>>
    /\ m_default_attr \in {7, 94}
    /\ m_attr = m_default_attr
    /\ con_attr = m_default_attr
    /\ m_enable_c1 \in BOOLEAN
    /\ con_out = <<>>
    /\ codes = <<>>
    /\ fed = <<>>
    /\ cuts_in_seq = TRUE
    /\ nwrites = 0

OutNext ==
    /\ (\E chars \in Chunks : write(chars)) \/ flush
    /\ UNCHANGED <<nops, luaVars>>

SpecOut == OutInit /\ [][OutNext]_vars

\* the parameter lists given to write_sgr in SpecSgr
SgrParams ==
    {<<param>> : param \in {0, 1, 2, 3, 4, 5, 7, 22, 24, 29, 89}
                            \cup 30..49 \cup 90..108}
    \cup {<<f, b>> : f \in {30, 31, 35, 37}, b \in {40, 41, 45, 47}}
    \cup {<<38, 5, 1>>, <<48, 2, 1, 2, 3>>, <<31, 0>>, <<1, 4, 0>>, <<0, 1>>}

\* one call of win_terminal::write_sgr, as write_c1 makes it for a CSI
\* sequence with final character 'm'
sgr(params) ==
    /\ m_enable_c1
    /\ nwrites < MaxSgr
    /\ nwrites' = nwrites + 1
    /\ LET s == write_sgr(Session, params)
       IN  /\ SetSession(s)
           /\ last' = [op |-> "write_sgr", params |-> params,
                       attr_before |-> m_attr, attr_calls |-> s.attr_calls]
    /\ UNCHANGED <<ringVars, npush, inVars, fed, cuts_in_seq, hostVars>>

\* a session with interpretation enabled, for every current attribute (each
\* is reached from the default by SGR sequences) and two default attributes
SgrInit ==
    /\ InitRing /\ InitIn /\ g_altgr = TRUE /\ npush = 0 /\ InitLast
    /\ InitHost
    /\ m_state = <<>>
    /\ m_default_attr \in {7, 94}
    /\ m_attr \in 0..255
    /\ con_attr = m_attr
    /\ m_enable_c1 = TRUE
    /\ con_out = <<>>
    /\ codes = <<>>
    /\ fed = <<>>
    /\ cuts_in_seq = TRUE
    /\ nwrites = 0

SgrNext ==
    /\ \E params \in SgrParams : sgr(params)
    /\ UNCHANGED <<nops, luaVars>>

SpecSgr == SgrInit /\ [][SgrNext]_vars

----------------------------------------------------------------------------
(* The session: win_terminal::begin, end and check_c1_support, with the    *)
(* operations of a session between begin() and end().                      *)

\* dll_names
dll_names ==
    {"conemuhk.dll", "conemuhk64.dll", "ansi.dll", "ansi32.dll", "ansi64.dll"}

\* win_terminal::check_c1_support: the value m_enable_c1 is left with
c1_support(modules, ansi) ==
    IF \E dll_name \in dll_names : dll_name \in modules THEN FALSE
    ELSE ~ansi

\* win_terminal::check_c1_support
check_c1_support ==
    /\ ~active
    /\ m_enable_c1' = c1_support(loaded, g_ansi)
    /\ last' = [op |-> "check_c1_support"]
    /\ UNCHANGED <<ringVars, npush, inVars, hostVars, nops, luaVars,
                   m_state, m_attr, m_default_attr, con_out, con_attr, codes,
                   fed, cuts_in_seq, nwrites>>

\* csbi.wAttributes & 0xff
low_byte(attributes) == BitAnd(attributes, 255)

\* win_terminal::begin: win_terminal_in::begin, then win_terminal_out::begin
begin ==
    /\ ~active
    /\ active' = TRUE
    /\ pre' = [in_mode |-> con_in_mode, out_mode |-> con_out_mode,
               attr |-> con_attr]
    /\ m_buffer_count' = 0
    /\ fifo' = <<>>
    /\ in_prev_mode' = con_in_mode
    /\ con_in_mode' = ENABLE_WINDOW_INPUT
    /\ m_default_attr' = low_byte(con_attr)
    /\ m_attr' = low_byte(con_attr)
    /\ out_prev_mode' = con_out_mode
    /\ last' = [op |-> "begin"]
    /\ UNCHANGED <<m_buffer, m_buffer_head, written, npush, inVars, nops, luaVars,
                   m_state, m_enable_c1, con_out, con_attr, codes, fed,
                   cuts_in_seq, nwrites, con_out_mode, loaded, g_ansi>>

\* win_terminal::end: win_terminal_out::end, then win_terminal_in::end
end ==
    /\ active
    /\ pc = "idle"
    /\ active' = FALSE
    /\ con_out_mode' = out_prev_mode
    /\ con_attr' = m_default_attr
    /\ con_in_mode' = in_prev_mode
    /\ last' = [op |-> "end"]
    /\ UNCHANGED <<ringVars, npush, inVars, nops, luaVars,
                   m_state, m_attr, m_default_attr, m_enable_c1, con_out,
                   codes, fed, cuts_in_seq, nwrites, loaded, g_ansi,
                   in_prev_mode, out_prev_mode, pre>>

\* the byte strings given to write in Spec: a, BEL, ESC [ 3 1 m, ESC [ 2 J,
\* ESC c
SessionChunks ==
    {<<97>>, <<7>>, <<27, 91, 51, 49, 109>>, <<27, 91, 50, 74>>, <<27, 99>>}

\* the records the console delivers in Spec: a focus record, 'a', Up
SessionRecords ==
    {OtherRecord, Key(TRUE, 97, 65, 30, {}), Key(TRUE, 0, 38, 72, {})}

\* the line editor calls an operation of the session it has begun
session_op ==
    /\ active /\ pc = "idle" /\ nops < MaxOps /\ nops' = nops + 1
    /\ UNCHANGED luaVars

session_write == session_op /\ \E chars \in SessionChunks : write(chars)

session_flush == session_op /\ flush

session_select == session_op /\ select

session_read == session_op /\ read

session_get_columns == session_op /\ get_columns

session_get_rows == session_op /\ get_rows

\* select, begun by session_select, reads the console's next record
session_input == active /\ ReadConsoleInput /\ UNCHANGED <<nops, luaVars>>

\* the console queues a record
host_input ==
    /\ \E record \in SessionRecords : HostInput(record)
    /\ UNCHANGED <<nops, luaVars>>

\* a process that has not made a session yet: any of a few console states,
\* either value of terminal.ansi, with or without a known ANSI module, and
\* m_enable_c1 as the constructor left it
Init ==
    /\ InitRing /\ InitIn /\ npush = 0 /\ InitLast
    /\ g_altgr = TRUE
    /\ m_state = <<>>
    /\ m_default_attr = 0
    /\ m_attr = 0
    /\ m_enable_c1 \in BOOLEAN
    /\ con_out = <<>>
    /\ con_attr \in {7, 94, 16391}
    /\ codes = <<>>
    /\ fed = <<>>
    /\ cuts_in_seq = TRUE
    /\ nwrites = 0
    /\ con_in_mode \in {487, 7}
    /\ con_out_mode \in {3, 7}
    /\ loaded \in {{"kernel32.dll"}, {"kernel32.dll", "ansi64.dll"},
                   {"kernel32.dll", "conemuhk.dll"}}
    /\ g_ansi \in BOOLEAN
    /\ active = FALSE
    /\ in_prev_mode = 0
    /\ out_prev_mode = 0
    /\ pre = [in_mode |-> con_in_mode, out_mode |-> con_out_mode,
              attr |-> con_attr]
    /\ nops = 0
    /\ InitLua

Next ==
    \/ check_c1_support
    \/ begin
    \/ end
    \/ session_write
    \/ session_flush
    \/ session_select
    \/ session_read
    \/ session_get_columns
    \/ session_get_rows
    \/ session_input
    \/ host_input

Spec == Init /\ [][Next]_vars

\* the same process on one console: yellow on magenta, the usual modes, no
\* known ANSI module loaded
SessionInit ==
    /\ Init
    /\ con_attr = 94
    /\ con_in_mode = 487
    /\ con_out_mode = 3
    /\ loaded = {"kernel32.dll"}

SpecSession == SessionInit /\ [][Next]_vars

----------------------------------------------------------------------------
(* The match generators: generator.lua.  A generator is the table that     *)
(* clink.generator returns; id, given and born are history: the order of   *)
(* registration, the priority argument as given, and the number of         *)
(* clink._generate calls begun before the registration.                    *)

\* if priority == nil then priority = 999 end
DefaultPriority == 999

\* the priority arguments given in SpecGen: <<p>> is the number p, <<>> is
\* nil (no argument)
PriorityArgs == {<<1>>, <<5>>, <<>>}

\* a prepare that leaves _generators as they are
sort_never(gs) == {gs}

\* the orders of the elements of gs
Orders(gs) ==
    LET n == Len(gs) IN
    {[i \in 1..n |-> gs[q[i]]] :
        q \in {r \in [1..n -> 1..n] : \A i, j \in 1..n : r[i] = r[j] => i = j}}

\* table.sort(_generators, lambda) with lambda(a, b) = a._priority <
\* b._priority: the results it may leave, the sort not being stable
sort(gs) ==
    {o \in Orders(gs) :
        \A i \in 1..(Len(o) - 1) : ~(o[i + 1].priority < o[i].priority)}

\* prepare: the values it may leave in _generators
prepare(gs, unsorted) == IF unsorted THEN sort(gs) ELSE {gs}

\* clink.generator(priority)
generator(priority) ==
    /\ gpc = "idle"
    /\ Len(generators) < MaxGenerators
    /\ generators' =
          Append(generators,
                 [priority |-> IF priority = <<>> THEN DefaultPriority
                               ELSE priority[1],
                  id |-> Len(generators) + 1,
                  given |-> priority,
                  born |-> ngenerate])
    /\ generators_unsorted' = TRUE
    /\ UNCHANGED <<current_builder, gpc, gnext, invoked, builders, ngenerate>>

\* clink.generator called by a script
clink_generator(priority) ==
    /\ generator(priority)
    /\ last' = [op |-> "generator", priority |-> priority]
    /\ UNCHANGED genRest

\* clink.register_match_generator(func, priority): clink.generator and a
\* generate method that calls func
register_match_generator(priority) ==
    /\ generator(priority)
    /\ last' = [op |-> "register_match_generator", priority |-> priority]
    /\ UNCHANGED genRest

\* clink._generate(line_state, match_builder) up to the loop of impl
generate_enter(match_builder) ==
    /\ gpc = "idle"
    /\ ngenerate < MaxGenerate
    /\ match_builder = ngenerate + 1
    /\ ngenerate' = ngenerate + 1
    /\ generators' \in prepare(generators, generators_unsorted)
    /\ generators_unsorted' = FALSE
    /\ current_builder' = match_builder
    /\ gpc' = "generate"
    /\ gnext' = 1
    /\ invoked' = <<>>
    /\ last' = [op |-> "_generate_enter", builder |-> match_builder]
    /\ UNCHANGED <<builders, genRest>>

\* what a generator's generate may do: return true, false or another value,
\* or raise an error
Returns == {"true", "false", "other", "error"}

\* a loop that stops at every value other than false
stops_unless_false(ret) == ret # "false"

\* if ret == true then return true end
stops(ret) == ret = "true"

\* builder:addmatch(match) on the builder b, "nil" being no builder
addmatch(bs, b, match) ==
    IF b = NoBuilder THEN bs
    ELSE [bs EXCEPT ![b].matches = bs[b].matches \cup {match}]

\* one round of the loop of impl: generator:generate(line_state,
\* match_builder) returns ret or raises its error, and an error ends
\* clink._generate at "return"; what generate does to its match_builder
\* argument is the builder's, not generator.lua's, and is left out
generate_call(ret) ==
    /\ gpc = "generate"
    /\ gnext <= Len(generators)
    /\ invoked' = Append(invoked, [generator |-> generators[gnext], ret |-> ret])
    /\ IF ret = "error"
       THEN /\ gpc' = "idle"
            /\ gnext' = 0
            /\ last' = [op |-> "_generate", ret |-> "nothing"]
            /\ UNCHANGED current_builder
       ELSE IF stops(ret)
       THEN /\ gpc' = "idle"
            /\ gnext' = 0
            /\ current_builder' = NoBuilder
            /\ last' = [op |-> "_generate", ret |-> "true"]
       ELSE /\ gnext' = gnext + 1
            /\ last' = [op |-> "generate", ret |-> ret]
            /\ UNCHANGED <<gpc, current_builder>>
    /\ UNCHANGED <<generators, generators_unsorted, builders, ngenerate,
                   genRest>>

\* ipairs has passed the last generator: impl returns false
generate_end ==
    /\ gpc = "generate"
    /\ gnext > Len(generators)
    /\ gpc' = "idle"
    /\ gnext' = 0
    /\ current_builder' = NoBuilder
    /\ last' = [op |-> "_generate", ret |-> "false"]
    /\ UNCHANGED <<generators, generators_unsorted, invoked, builders,
                   ngenerate, genRest>>

\* clink._get_word_break_info(line_state): prepare, then the generators'
\* getwordbreakinfo
get_word_break_info ==
    /\ gpc = "idle"
    /\ generators' \in prepare(generators, generators_unsorted)
    /\ generators_unsorted' = FALSE
    /\ last' = [op |-> "_get_word_break_info"]
    /\ UNCHANGED <<current_builder, gpc, gnext, invoked, builders, ngenerate,
                   genRest>>

\* clink.add_match(match) called while no clink._generate is running
add_match ==
    /\ gpc = "idle"
    /\ builders' = addmatch(builders, current_builder, "match")
    /\ last' = [op |-> "add_match", builder |-> current_builder]
    /\ UNCHANGED <<generators, generators_unsorted, current_builder, gpc,
                   gnext, invoked, ngenerate, genRest>>

\* clink.matches_are_files(files) called while no clink._generate is running
matches_are_files(files) ==
    /\ gpc = "idle"
    /\ builders' = IF current_builder = NoBuilder THEN builders
                   ELSE [builders EXCEPT ![current_builder].files = files]
    /\ last' = [op |-> "matches_are_files", builder |-> current_builder]
    /\ UNCHANGED <<generators, generators_unsorted, current_builder, gpc,
                   gnext, invoked, ngenerate, genRest>>

\* generator.lua as loaded, the terminal not in use
GenInit == RingInit

GenNext ==
    \/ \E priority \in PriorityArgs : clink_generator(priority)
    \/ \E priority \in PriorityArgs : register_match_generator(priority)
    \/ \E match_builder \in Builders : generate_enter(match_builder)
    \/ \E ret \in Returns : generate_call(ret)
    \/ generate_end
    \/ get_word_break_info
    \/ add_match
    \/ \E files \in {"true", "false"} : matches_are_files(files)

SpecGen == GenInit /\ [][GenNext]_vars

\* the generators invoked so far in the latest clink._generate
Invoked == [i \in 1..Len(invoked) |-> invoked[i].generator]

----------------------------------------------------------------------------
(* The subprocess facility: lua_exec.cpp.  lua_execute runs on the thread  *)
(* of its caller and starts one watcher thread, thread_proc; the child     *)
(* process and the passing of time are the environment.  A call's inputs   *)
(* are its Lua arguments and the results of the Windows calls it makes:    *)
(*   arg     the first argument: "none", "string", "number" or "table"     *)
(*   tmo     the second argument: <<>> if absent, else <<milliseconds>>    *)
(*   job     create_job: "ok", "no_job" (CreateJobObject fails) or         *)
(*           "no_limit" (SetInformationJobObject fails)                    *)
(*   pipes   CreatePipe succeeds (for all three pipes, or for none)        *)
(*   first   CreateProcess on cmd: "ok", "file_not_found" or "other_error" *)
(*   second  CreateProcess on "cmd.exe /c " + cmd: "ok" or "error"         *)
(*   assign  AssignProcessToJobObject succeeds                             *)
(*   thread  CreateThread succeeds                                         *)

\* lua_isstring(state, 1): a string, or a number (which converts to one)
lua_isstring(arg) == arg \in {"string", "number"}

\* WaitForSingleObject's INFINITE, 0xFFFFFFFF, as the int timeout holds it
INFINITE == -1

\* exec_state.timeout
timeout_of(tmo) == IF tmo = <<>> THEN 1000 ELSE tmo[1]

\* the six pipe handles, and those of them given to the child
PipeHandles == {"out_read", "out_write", "err_read", "err_write", "in_read",
                "in_write"}
ChildSide == {"out_write", "err_write", "in_read"}

\* CloseHandle on each handle of hs
CloseHandles(cl, hs) == [h \in Handles |-> IF h \in hs THEN cl[h] + 1 ELSE cl[h]]

\* a launch that never tries the command processor
launch_direct(first, second) == first = "ok"

\* ok after the CreateProcess calls of lines 227-240
launch(first, second) ==
    \/ first = "ok"
    \/ first = "file_not_found" /\ second = "ok"

\* lua_execute from its entry to the read loop of line 289, or to one of
\* its three "return 0"
lua_execute(arg, tmo, job, pipes, first, second, assign, thread) ==
    /\ epc = "idle"
    /\ einput' = [arg |-> arg, timeout |-> timeout_of(tmo), job |-> job,
                  pipes |-> pipes, first |-> first, second |-> second,
                  assign |-> assign, thread |-> thread]
    /\ IF ~lua_isstring(arg)
       THEN /\ epc' = "returned"
            /\ nret' = 0
            /\ UNCHANGED <<wpc, child, stdout_open, in_job, opened, closes>>
       ELSE IF job # "ok"
       THEN /\ epc' = "returned"
            /\ nret' = 0
            /\ opened' = IF job = "no_limit" THEN {"job"} ELSE {}
            /\ closes' = CloseHandles(closes, opened')
            /\ UNCHANGED <<wpc, child, stdout_open, in_job>>
       ELSE IF ~launch(first, second)
       THEN /\ epc' = "returned"
            /\ nret' = 0
            /\ opened' = {"job"} \cup (IF pipes THEN PipeHandles ELSE {})
            /\ closes' = CloseHandles(closes, opened')
            /\ UNCHANGED <<wpc, child, stdout_open, in_job>>
       ELSE /\ epc' = "read"
            /\ opened' = {"job", "process", "pthread"}
                             \cup (IF pipes THEN PipeHandles ELSE {})
                             \cup (IF thread THEN {"thread"} ELSE {})
            /\ closes' = CloseHandles(closes, ChildSide \cap opened')
            /\ child' = "running"
            /\ stdout_open' = pipes
            /\ in_job' = assign
            /\ wpc' = IF thread THEN "wait" ELSE "none"
            /\ UNCHANGED nret
    /\ last' = [op |-> "lua_execute"]
    /\ UNCHANGED <<proc_ret, execRest>>

\* the loop of lines 289-313 ends when ReadFile fails: no write end of the
\* stdout pipe is open any more, or there is no pipe
read_output ==
    /\ epc = "read"
    /\ ~stdout_open
    /\ epc' = "query"
    /\ last' = [op |-> "ReadFile"]
    /\ UNCHANGED <<wpc, child, stdout_open, in_job, opened, closes, nret,
                   proc_ret, einput, execRest>>

\* lines 337-341: proc_ret = -1, GetExitCodeProcess, which fails on a closed
\* handle and gives STILL_ACTIVE for a running process, and
\* CloseHandle(pi.hThread)
get_exit_code ==
    /\ epc = "query"
    /\ proc_ret' = IF closes["process"] > 0 THEN "-1"
                   ELSE IF child = "running" THEN "STILL_ACTIVE"
                   ELSE IF child = "killed" THEN "kill code"
                   ELSE "exit code"
    /\ closes' = CloseHandles(closes, {"pthread"})
    /\ epc' = "join"
    /\ last' = [op |-> "GetExitCodeProcess", open |-> closes["process"] = 0,
                child |-> child]
    /\ UNCHANGED <<wpc, child, stdout_open, in_job, opened, nret, einput,
                   execRest>>

\* lines 343-350: WaitForSingleObject(thread, INFINITE), which fails at once
\* on the null handle of a failed CreateThread, CloseHandle(thread), the
\* three destroy_pipe and "return 2"
join ==
    /\ epc = "join"
    /\ wpc = "done" \/ "thread" \notin opened
    /\ closes' = CloseHandles(closes,
                     ({"thread"} \cup (PipeHandles \ ChildSide)) \cap opened)
    /\ nret' = 2
    /\ epc' = "returned"
    /\ last' = [op |-> "return"]
    /\ UNCHANGED <<wpc, child, stdout_open, in_job, opened, proc_ret, einput,
                   execRest>>

\* thread_proc: WaitForSingleObject(process, state->timeout) returns, the
\* process having ended or the timeout having elapsed
thread_wait ==
    /\ wpc = "wait"
    /\ child # "running" \/ einput.timeout # INFINITE
    /\ wpc' = "close_process"
    /\ last' = [op |-> "WaitForSingleObject", child |-> child]
    /\ UNCHANGED <<epc, child, stdout_open, in_job, opened, closes, nret,
                   proc_ret, einput, execRest>>

\* thread_proc: CloseHandle(process)
thread_close_process ==
    /\ wpc = "close_process"
    /\ closes' = CloseHandles(closes, {"process"})
    /\ wpc' = "close_job"
    /\ last' = [op |-> "CloseHandle(process)"]
    /\ UNCHANGED <<epc, child, stdout_open, in_job, opened, nret, proc_ret,
                   einput, execRest>>

\* thread_proc: CloseHandle(job) and return; the job's last handle closed,
\* JOB_OBJECT_LIMIT_KILL_ON_JOB_CLOSE ends the processes in the job
thread_close_job ==
    /\ wpc = "close_job"
    /\ closes' = CloseHandles(closes, {"job"})
    /\ wpc' = "done"
    /\ IF in_job /\ child = "running"
       THEN child' = "killed" /\ stdout_open' = FALSE
       ELSE UNCHANGED <<child, stdout_open>>
    /\ last' = [op |-> "CloseHandle(job)"]
    /\ UNCHANGED <<epc, in_job, opened, nret, proc_ret, einput, execRest>>

\* the child exits, which closes its handles
child_exit ==
    /\ child = "running"
    /\ child' = "exited"
    /\ stdout_open' = FALSE
    /\ last' = [op |-> "child exits"]
    /\ UNCHANGED <<epc, wpc, in_job, opened, closes, nret, proc_ret, einput,
                   execRest>>

\* the child closes its stdout and runs on
child_close_stdout ==
    /\ child = "running"
    /\ stdout_open
    /\ stdout_open' = FALSE
    /\ last' = [op |-> "child closes stdout"]
    /\ UNCHANGED <<epc, wpc, child, in_job, opened, closes, nret, proc_ret,
                   einput, execRest>>

\* the second arguments given in SpecExec: none, 0 ms, and -1
TimeoutArgs == {<<>>, <<0>>, <<INFINITE>>}

ExecInit == RingInit

\* the steps of lua_execute's thread after the call
MainNext == read_output \/ get_exit_code \/ join

\* the steps of the watcher thread
WatcherNext == thread_wait \/ thread_close_process \/ thread_close_job

ExecNext ==
    \/ \E arg \in {"none", "string", "number", "table"}, tmo \in TimeoutArgs,
          job \in {"ok", "no_job", "no_limit"}, pipes \in BOOLEAN,
          first \in {"ok", "file_not_found", "other_error"},
          second \in {"ok", "error"}, assign \in BOOLEAN, thread \in BOOLEAN :
            lua_execute(arg, tmo, job, pipes, first, second, assign, thread)
    \/ read_output
    \/ get_exit_code
    \/ join
    \/ thread_wait
    \/ thread_close_process
    \/ thread_close_job
    \/ child_exit
    \/ child_close_stdout

SpecExec == ExecInit /\ [][ExecNext]_vars

\* the scheduler runs both threads, and a finite timeout elapses; nothing
\* makes the child exit
SpecExecFair ==
    SpecExec /\ WF_vars(MainNext) /\ WF_vars(WatcherNext)

----------------------------------------------------------------------------
(* The line table of lua_execute: next_line and the loop of lines 321-331. *)
(* A byte is "a", "b", "CR", "LF" or "NUL"; the buffer holds what ReadFile *)
(* stored and the zero byte the loop of lines 289-313 keeps after it.      *)

\* the bytes a child writes in SpecLines
OutBytes == {"a", "b", "CR", "LF"}

\* EOLS = "\r\n"
EOLS == {"CR", "LF"}

\* the sequences over S of length 0..n
SeqsUpTo(S, n) == UNION {[1..k -> S] : k \in 0..n}

\* strlen(str), str being the index i of buf
RECURSIVE strlen(_, _)
strlen(buf, i) == IF buf[i] = "NUL" THEN 0 ELSE 1 + strlen(buf, i + 1)

\* strpbrk(str, EOLS): the index of the first byte of EOLS in the string
\* at i, 0 for a null pointer
RECURSIVE strpbrk(_, _)
strpbrk(buf, i) ==
    IF buf[i] = "NUL" THEN 0
    ELSE IF buf[i] \in EOLS THEN i
    ELSE strpbrk(buf, i + 1)

\* a loop that ends after its first round
eol_first(buf, eol) == eol + 1

\* eol after the do-while of lines 159-164, which began at the index eol
RECURSIVE eol_after(_, _)
eol_after(buf, eol) ==
    IF buf[eol + 1] \in EOLS THEN eol_after(buf, eol + 1) ELSE eol + 1

\* next_line(str): the buffer it leaves and the index it returns, 0 for
\* nullptr
next_line(buf, str) ==
    LET found == strpbrk(buf, str)
        eol == IF found # 0 THEN eol_after(buf, found)
               ELSE str + strlen(buf, str)
        zeroed == [i \in 1..Len(buf) |->
                     IF found # 0 /\ i >= found /\ i < eol THEN "NUL"
                     ELSE buf[i]]
    IN  [buf |-> zeroed, next |-> IF zeroed[eol] # "NUL" THEN eol ELSE 0]

\* lua_pushstring(state, line): the bytes from line up to the zero byte
pushstring(buf, i) == SubSeq(buf, i, i + strlen(buf, i) - 1)

\* the read loop has stored the child's output out in buffer
read_all(out) ==
    /\ lpc = "idle"
    /\ output' = out
    /\ exec_buffer' = out \o <<"NUL">>
    /\ line' = 1
    /\ lines' = <<>>
    /\ lpc' = "extract"
    /\ last' = [op |-> "ReadFile"]
    /\ UNCHANGED lineRest

\* one round of the do-while of lines 321-331
extract_line ==
    /\ lpc = "extract"
    /\ LET r == next_line(exec_buffer, line) IN
         /\ exec_buffer' = r.buf
         /\ lines' = Append(lines, pushstring(r.buf, line))
         /\ line' = r.next
         /\ lpc' = IF r.next # 0 THEN "extract" ELSE "done"
    /\ last' = [op |-> "next_line"]
    /\ UNCHANGED <<output, lineRest>>

LinesInit == RingInit

LinesNext ==
    \/ \E out \in SeqsUpTo(OutBytes, MaxOut) : read_all(out)
    \/ extract_line

SpecLines == LinesInit /\ [][LinesNext]_vars

----------------------------------------------------------------------------
(* C1: after any sequence of push and pop the buffer's count never exceeds *)
(* its capacity.                                                           *)
C1_CountWithinCapacity == m_buffer_count <= BufferSize

(* C2: every byte pop returns (other than the empty sentinel) is the next  *)
(* byte that push stored, in the order pushed; pop never hands out a slot  *)
(* that push did not write, and the bytes buffered are exactly those       *)
(* stored and not yet popped.                                              *)
Buffered == [i \in 1..Len(fifo) |-> m_buffer[AndMask(m_buffer_head + i - 1)]]

C2_FaithfulFifo ==
    /\ (last.op = "pop" /\ last.before > 0) => <<last.val>> = last.due
    /\ Len(fifo) <= BufferSize /\ Buffered = fifo

(* C3: feeding a byte string in several write calls, each cut falling      *)
(* inside an escape sequence, gives the same classified codes, the same    *)
(* console output and the same attribute as one write call on the whole.   *)
OneShot ==
    write_chars([state |-> <<>>, attr |-> m_default_attr,
                 default_attr |-> m_default_attr, enable_c1 |-> m_enable_c1,
                 out |-> <<>>, con_attr |-> m_default_attr, codes |-> <<>>,
                 attr_calls |-> 0], fed)

C3_SplitWriteAsWhole ==
    (nwrites >= 2 /\ cuts_in_seq)
        => /\ codes = OneShot.codes
           /\ con_out = OneShot.out
           /\ m_attr = OneShot.attr
           /\ con_attr = OneShot.con_attr
           /\ m_state = OneShot.state

C3_Witness ==
    /\ nwrites >= 2 /\ cuts_in_seq /\ m_state = <<>> /\ m_enable_c1
    /\ \E i \in 1..Len(codes) :
          /\ codes[i].type = "c1" /\ codes[i].code = 91
          /\ csi_final(codes[i].bytes) = 109
          /\ decode_csi(codes[i].bytes) = <<31>>
    /\ m_attr # m_default_attr

(* C4: the SGR parameters [f, b], f in 30..37 and b in 40..47, leave the   *)
(* foreground bits at palette[f-30], the background bits at palette[b-40]  *)
(* and both intensity bits as they were; a foreground parameter alone      *)
(* keeps the high nibble, a background parameter alone the low nibble.     *)
Palette == <<0, 4, 2, 6, 1, 5, 3, 7>>

C4_ForegroundBackground ==
    last.op = "write_sgr" =>
        /\ (Len(last.params) = 2 /\ last.params[1] \in 30..37
                                 /\ last.params[2] \in 40..47)
              => /\ m_attr % 8 = Palette[last.params[1] - 30 + 1]
                 /\ (m_attr \div 16) % 8 = Palette[last.params[2] - 40 + 1]
                 /\ BitAnd(m_attr, 136) = BitAnd(last.attr_before, 136)
        /\ (Len(last.params) = 1 /\ last.params[1] \in 30..37)
              => m_attr \div 16 = last.attr_before \div 16
        /\ (Len(last.params) = 1 /\ last.params[1] \in 40..47)
              => m_attr % 16 = last.attr_before % 16

(* C5: a key-down with Unicode value 0, Ctrl held, the enhancement flag    *)
(* not set and the virtual key of a letter A..Z appends exactly one byte,  *)
(* 0x01 for A through 0x1A for Z.                                          *)
IsCtrlLetter(record) ==
    /\ record.type = "KEY_EVENT" /\ record.down /\ record.ch = 0
    /\ Has(record.flags, CTRL_PRESSED)
    /\ "ENHANCED_KEY" \notin record.flags
    /\ record.vk \in 65..90

C5_CtrlLetter ==
    (last.op = "select" /\ last.consumed > 0 /\ IsCtrlLetter(last.record))
        => /\ fifo = last.fifo_before \o <<last.record.vk - 64>>
           /\ m_buffer_count = last.before + 1

(* C6: after end() the console's input mode, output mode and text          *)
(* attribute are exactly what they were before begin(), whatever the       *)
(* session did in between.                                                 *)
C6_EndRestoresHost ==
    last.op = "end" =>
        /\ con_in_mode = pre.in_mode
        /\ con_out_mode = pre.out_mode
        /\ con_attr = pre.attr

(* C7: after check_c1_support, interpretation is enabled exactly when no   *)
(* known ANSI module is loaded and the setting terminal.ansi is on.        *)
C7_ProbeEnables ==
    last.op = "check_c1_support" =>
        (m_enable_c1 <=> (loaded \cap dll_names = {} /\ g_ansi))

(* C8: with interpretation disabled every byte given to write reaches the  *)
(* console unchanged and in order, and the attribute is not changed.       *)
C8_DisabledPassThrough ==
    (~m_enable_c1 /\ m_state = <<>>)
        => /\ con_out = to_utf16(fed)
           /\ m_attr = m_default_attr
           /\ con_attr = m_default_attr

(* C9: read() on an empty ring buffer, with a key-down record pending that *)
(* encodes to at least one byte, consumes host records and returns the     *)
(* first encoded byte of that record.                                      *)
EmptyRing ==
    [buffer |-> [s \in 0..mask |-> 0], head |-> 0, count |-> 0,
     written |-> {}, fifo |-> <<>>]

\* the bytes the record appends to an empty ring buffer
Encoded(record) == read_console(EmptyRing, record, g_altgr).ring.fifo

KeyDownPending(queue) ==
    /\ queue # <<>>
    /\ Head(queue).type = "KEY_EVENT" /\ Head(queue).down
    /\ Encoded(Head(queue)) # <<>>

C9_ReadEncodesOnDemand ==
    (last.op = "read" /\ last.before = 0 /\ KeyDownPending(last.pending_before))
        => /\ last.val = Head(Encoded(Head(last.pending_before)))
           /\ last.pending_after = Tail(last.pending_before)

(* C9 as amended: read() on an empty ring buffer returns the 'no data'     *)
(* code 0x04, consumes no host record and leaves the buffer empty, also    *)
(* when a key-down record that encodes to bytes is pending.                *)
C9_ReadEmptyNoData ==
    (last.op = "read" /\ last.before = 0)
        => /\ last.val = 4
           /\ last.pending_after = last.pending_before
           /\ m_buffer_count = 0 /\ fifo = <<>>

C9_Witness ==
    /\ last.op = "read" /\ last.before = 0
    /\ KeyDownPending(last.pending_before)
    /\ last.val = 4

(* C10: select() returns only with at least one byte buffered: with a      *)
(* non-empty buffer on entry it consumes no host record; otherwise it      *)
(* consumes records, the buffer staying empty, until one has appended a    *)
(* byte.                                                                   *)
C10_SelectReturnsWithData ==
    /\ last.op = "select" =>
          /\ m_buffer_count >= 1 /\ Len(fifo) = m_buffer_count
          /\ last.before # 0 => last.consumed = 0 /\ fifo = last.fifo_before
          /\ last.before = 0 =>
                /\ last.consumed >= 1
                /\ fifo = Encoded(last.record) /\ fifo # <<>>
    /\ last.op \in {"select_enter", "skip"} =>
          pc = "select" /\ m_buffer_count = 0
    /\ pc = "select" => m_buffer_count = 0

C10_Witness ==
    /\ last.op = "select" /\ last.consumed >= 2 /\ m_buffer_count >= 3

(* C11: read() on an empty buffer returns 0x04 and leaves head, count and  *)
(* contents as they were; read() on a buffer that holds data returns the   *)
(* oldest byte, takes one off the count and moves the head on by one,      *)
(* modulo the capacity; no byte push stored equals pop's 0xFF.             *)
C11_ReadPops ==
    /\ \A i \in 1..Len(fifo) : fifo[i] # PopEmpty
    /\ last.op = "read" =>
          IF last.before = 0
          THEN /\ last.val = 4
               /\ m_buffer_count = 0
               /\ m_buffer_head = last.head_before
               /\ m_buffer = last.buffer_before
          ELSE /\ <<last.val>> = last.due
               /\ last.val = last.buffer_before[last.head_before]
               /\ m_buffer_count = last.before - 1
               /\ m_buffer_head = (last.head_before + 1) % BufferSize
               /\ m_buffer = last.buffer_before

\* a read that takes the byte of the last slot, so that the head wraps
C11_Witness ==
    /\ last.op = "read"
    /\ last.before > 0
    /\ last.head_before = BufferSize - 1
    /\ m_buffer_head = 0

\* the row of mod_map for a scan code
NavRow(sc) == CHOOSE i \in 1..Len(mod_map) : mod_map[i][1] = sc

\* a key-down record with no Unicode value and the scan code of a navigation key
IsNavScan(record) ==
    /\ record.type = "KEY_EVENT"
    /\ record.down
    /\ record.ch = 0
    /\ \E i \in 1..Len(mod_map) : mod_map[i][1] = record.sc

\* ESC, 'O' with Ctrl and '[' without, the key's character
NavBytes(record) ==
    <<27,
      IF Has(record.flags, CTRL_PRESSED) THEN 79 ELSE 91,
      mod_map[NavRow(record.sc)]
             [IF "SHIFT_PRESSED" \in record.flags THEN 3 ELSE 2]>>

\* the encoder has just dealt with a record
Dealt == last.op \in {"select", "skip"}

(* C12: a key-down with Unicode value 0 and the scan code of one of the    *)
(* ten navigation keys appends exactly ESC, 'O' or '[', and the key's      *)
(* character, whether or not ENHANCED_KEY is set.                          *)
C12_NavByScanCode ==
    (Dealt /\ IsNavScan(last.record)) =>
        /\ last.op = "select"
        /\ fifo = last.fifo_before \o NavBytes(last.record)

(* C12 as amended: the same, for the records that have ENHANCED_KEY set or *)
(* whose virtual key is one of the ten navigation keys.                    *)
C12_NavByFlagOrVk ==
    (/\ Dealt
     /\ IsNavScan(last.record)
     /\ \/ "ENHANCED_KEY" \in last.record.flags
        \/ \E i \in 1..Len(nav_vks) : nav_vks[i] = last.record.vk) =>
        /\ last.op = "select"
        /\ fifo = last.fifo_before \o NavBytes(last.record)

\* Ctrl+Up without ENHANCED_KEY has given ESC O A
C12_Witness ==
    /\ last.op = "select"
    /\ IsNavScan(last.record)
    /\ "ENHANCED_KEY" \notin last.record.flags
    /\ Has(last.record.flags, CTRL_PRESSED)
    /\ fifo = <<27, 79, 65>>

\* a key-down record with Unicode value TAB and Shift held
IsShiftTab(record) ==
    /\ record.type = "KEY_EVENT"
    /\ record.down
    /\ record.ch = 9
    /\ "SHIFT_PRESSED" \in record.flags

(* C13: a key-down with Unicode value TAB and Shift held that arrives on   *)
(* an empty buffer leaves the buffer holding exactly ESC '[' 'Z', whatever *)
(* the other modifiers and the setting terminal.altgr.  (The encoder only  *)
(* reads a record when the buffer is empty.)                               *)
C13_ShiftTab ==
    (Dealt /\ IsShiftTab(last.record)) =>
        /\ last.op = "select"
        /\ last.before = 0
        /\ fifo = <<27, 91, 90>>

\* the UTF-8 encoding of a code point of the basic multilingual plane:
\* 0xxxxxxx, 110xxxxx 10xxxxxx or 1110xxxx 10xxxxxx 10xxxxxx
Utf8(cp) ==
    LET low(k) == 128 + ((cp \div (64 ^ k)) % 64) IN
    IF cp <= 127 THEN <<cp>>
    ELSE IF cp <= 2047 THEN <<192 + cp \div 64, low(0)>>
    ELSE <<224 + cp \div 4096, low(1), low(0)>>

\* a key-down record with a Unicode value and no modifier key held
IsPlainChar(record) ==
    /\ record.type = "KEY_EVENT"
    /\ record.down
    /\ record.ch # 0
    /\ record.flags = {}

(* C14: a key-down with a nonzero Unicode value and no modifier held,      *)
(* arriving on an empty buffer, appends exactly the UTF-8 encoding of the  *)
(* value, and the reads that follow return the bytes select left in the    *)
(* buffer, in order.                                                       *)
C14_PlainCharUtf8 ==
    /\ (last.op = "select" /\ IsPlainChar(last.record)) =>
          /\ last.before = 0
          /\ fifo = Utf8(last.record.ch)
          /\ m_buffer_count = Len(fifo)
          /\ \A i \in 1..Len(fifo) :
                m_buffer[(m_buffer_head + i - 1) % BufferSize] = fifo[i]
    /\ last.op = "read" =>
          /\ last.got \o fifo = last.stored
          /\ m_buffer_count = Len(fifo)

\* U+20AC was typed and its three bytes have been read back
C14_Witness ==
    /\ last.op = "read"
    /\ last.stored = Utf8(8364)
    /\ last.got = <<226, 130, 172>>
    /\ m_buffer_count = 0

\* the record is taken as an AltGr substitute: left Alt, Ctrl and a character,
\* with the setting terminal.altgr on
IsAltGrSub(record, altgr) ==
    /\ "LEFT_ALT_PRESSED" \in record.flags
    /\ Has(record.flags, CTRL_PRESSED)
    /\ record.ch # 0
    /\ altgr

\* the same record with both Alt keys released
AltReleased(record) == [record EXCEPT !.flags = record.flags \ ALT_PRESSED]

\* the bytes the encoder appends to an empty buffer for a record
Appended(record) ==
    read_console([Ring EXCEPT !.count = 0, !.fifo = <<>>], record, g_altgr).ring.fifo

C16_KeyUp ==
    (/\ Dealt
     /\ last.record.type = "KEY_EVENT"
     /\ ~last.record.down) =>
        IF last.record.vk = VK_MENU /\ last.record.ch # 0
        THEN /\ last.op = "select"
             /\ fifo = last.fifo_before \o Utf8(last.record.ch)
        ELSE /\ last.op = "skip"
             /\ pc = "select"
             /\ fifo = <<>>
             /\ m_buffer_count = 0

\* the key-up of Alt carrying U+00E9, with Alt, Ctrl and Shift still held,
\* has given the two bytes of U+00E9
C16_Witness ==
    /\ last.op = "select"
    /\ ~last.record.down
    /\ last.record.vk = VK_MENU
    /\ "LEFT_CTRL_PRESSED" \in last.record.flags
    /\ fifo = <<195, 169>>

(* C17: with interpretation enabled, an SGR sequence whose last parameter  *)
(* is 0 leaves the current attribute equal to the default attribute taken  *)
(* at begin(), whatever it was before, and the console is set to it.       *)
C17_ResetRestoresDefault ==
    (last.op = "write_sgr" /\ last.params[Len(last.params)] = 0) =>
        /\ m_attr = m_default_attr
        /\ con_attr = m_default_attr
        /\ last.attr_calls = 1

\* ESC [ 1 ; 4 ; 0 m on an attribute other than the default
C17_Witness ==
    /\ last.op = "write_sgr"
    /\ last.params = <<1, 4, 0>>
    /\ last.attr_before # m_default_attr
    /\ m_attr = m_default_attr

(* C18: SGR 39 replaces only bits 0-2 of the attribute with those of the   *)
(* default, and SGR 49 only bits 4-6; every other bit, the two intensity   *)
(* bits included, stays as it was.                                         *)
C18_DefaultColours ==
    /\ (last.op = "write_sgr" /\ last.params = <<39>>) =>
          m_attr = BitOr(BitAnd(last.attr_before, 248), BitAnd(m_default_attr, 7))
    /\ (last.op = "write_sgr" /\ last.params = <<49>>) =>
          m_attr = BitOr(BitAnd(last.attr_before, 143), BitAnd(m_default_attr, 112))

\* the SGR parameters the renderer knows
Recognized ==
    {0, 1, 2, 22, 4, 24, 39, 49} \cup 30..37 \cup 40..47 \cup 90..97 \cup 100..107

(* C19: an SGR parameter outside the recognized set leaves the attribute   *)
(* as it was, and the sub-parameters after 38 and 48 (5;n or 2;r;g;b) are  *)
(* consumed with them and have no effect of their own.                     *)
C19_UnrecognizedIgnored ==
    /\ (/\ last.op = "write_sgr"
        /\ Len(last.params) = 1
        /\ last.params[1] \notin Recognized) => m_attr = last.attr_before
    /\ (last.op = "write_sgr" /\ last.params \in {<<38, 5, 1>>, <<48, 2, 1, 2, 3>>}) =>
          m_attr = last.attr_before

\* how many of the codes are CSI sequences with final character 'm'
NumSgr(cs) ==
    Cardinality({i \in 1..Len(cs) :
                    /\ cs[i].type = "c1"
                    /\ cs[i].code = 91
                    /\ cs[i].bytes[Len(cs[i].bytes)] = 109})

\* the step was a write that processed an SGR sequence with interpretation
\* enabled
SgrWritten ==
    /\ last'.op = "write"
    /\ last'.enabled
    /\ NumSgr(SubSeq(codes', last'.ncodes_before + 1, Len(codes'))) > 0

(* C20: between begin() and end() the current attribute changes, and the   *)
(* console is given an attribute, only when a write processes a CSI        *)
(* sequence with final character 'm' with interpretation enabled; text, C0 *)
(* codes, other CSI sequences, other escape codes, flush, select, read and *)
(* the size queries leave it alone, and the default attribute is only ever *)
(* set by begin().                                                         *)
C20_AttrOnlyBySgr ==
    [][/\ m_default_attr' # m_default_attr => last'.op = "begin"
       /\ m_attr' # m_attr => (last'.op = "begin" \/ SgrWritten)
       /\ con_attr' # con_attr => (last'.op = "end" \/ SgrWritten)
       /\ last'.op = "write" =>
             last'.attr_calls =
                IF last'.enabled
                THEN NumSgr(SubSeq(codes', last'.ncodes_before + 1, Len(codes')))
                ELSE 0]_vars

\* ESC [ 2 J was written with interpretation enabled, after a red foreground
\* was set, and the attribute is still what it was
C20_Witness ==
    /\ active
    /\ last.op = "write"
    /\ last.enabled
    /\ last.chars = <<27, 91, 50, 74>>
    /\ last.attr_calls = 0
    /\ m_attr = last.attr_before
    /\ m_attr # m_default_attr

----------------------------------------------------------------------------
(* C21: in every call of clink._generate the generators are invoked in     *)
(* non-decreasing priority order, whatever the order of registration and   *)
(* also for generators registered after an earlier call, and a generator   *)
(* registered without a priority is ordered as priority 999.               *)
C21_PriorityOrder ==
    /\ \A i \in 1..(Len(Invoked) - 1) :
          Invoked[i].priority <= Invoked[i + 1].priority
    /\ \A i \in 1..Len(Invoked) :
          Invoked[i].priority =
              IF Invoked[i].given = <<>> THEN 999 ELSE Invoked[i].given[1]

\* the second call invokes a generator registered after the first call
\* ahead of one registered before it, and one without a priority last
C21_Witness ==
    /\ ngenerate = 2
    /\ Len(Invoked) = 2
    /\ Invoked[1].born = 1
    /\ Invoked[2].born = 0
    /\ Invoked[1].id > Invoked[2].id
    /\ Invoked[2].given = <<>>
    /\ Invoked[1].priority < Invoked[2].priority

----------------------------------------------------------------------------
\* clink._generate has just returned
GenerateReturned == last.op = "_generate"

\* what the generator invoked last gave, "none" when none was invoked
LastRet == IF invoked = <<>> THEN "none" ELSE invoked[Len(invoked)].ret

(* C22: clink._generate stops at the first generator whose generate        *)
(* returns true, invoking none after it and returning true, and if no      *)
(* generator returns true every registered generator is invoked exactly    *)
(* once and clink._generate returns false.                                 *)
C22_StopsAtTrue ==
    /\ \A i \in 1..(Len(invoked) - 1) : invoked[i].ret # "true"
    /\ GenerateReturned =>
          IF LastRet = "true" THEN last.ret = "true"
          ELSE Invoked = generators /\ last.ret = "false"

(* C22 amended: clink._generate also stops at the first generator whose    *)
(* generate raises an error, invoking none after it and returning no       *)
(* value; only if no generator returns true or raises an error is every    *)
(* registered generator invoked exactly once and false returned.           *)
C22_StopsAtTrueOrError ==
    /\ \A i \in 1..(Len(invoked) - 1) : invoked[i].ret \notin {"true", "error"}
    /\ GenerateReturned =>
          /\ Invoked = SubSeq(generators, 1, Len(invoked))
          /\ CASE LastRet = "true" -> last.ret = "true"
               [] LastRet = "error" -> last.ret = "nothing"
               [] OTHER -> Invoked = generators /\ last.ret = "false"

\* a call that the error of its first generator ended, with a second
\* generator registered and not invoked
C22_Witness ==
    /\ GenerateReturned
    /\ LastRet = "error"
    /\ Len(invoked) = 1
    /\ Len(generators) = 2
    /\ last.ret = "nothing"

(* C28: _current_builder is set only while clink._generate is running:     *)
(* after every return, also one that a generator's error caused, it is     *)
(* nil, so clink.add_match and clink.matches_are_files called outside a    *)
(* call act on no match builder.                                           *)
C28_BuilderNilOutsideGenerate ==
    /\ gpc = "idle" => current_builder = NoBuilder
    /\ last.op \in {"add_match", "matches_are_files"} =>
          last.builder = NoBuilder

----------------------------------------------------------------------------
(* C23: lua_execute returns no Lua value when its first argument is not a  *)
(* string (a number counting as one, as for lua_isstring), when the job    *)
(* object cannot be created, or when the process cannot be launched,       *)
(* directly or, after file-not-found, through the command processor; in    *)
(* every other case it returns two values, the table and the exit code.    *)
C23_ReturnCount ==
    epc = "returned" =>
        LET no_string == einput.arg \notin {"string", "number"}
            no_job == einput.job # "ok"
            no_launch == /\ einput.first # "ok"
                         /\ ~(einput.first = "file_not_found"
                                 /\ einput.second = "ok")
        IN  IF no_string \/ no_job \/ no_launch
            THEN nret = 0 /\ proc_ret = "unset"
            ELSE nret = 2 /\ proc_ret # "unset"

\* two values returned by a call whose command only the command processor
\* could launch
C23_Witness ==
    /\ epc = "returned"
    /\ nret = 2
    /\ einput.first = "file_not_found"
    /\ einput.second = "ok"

(* C24: in every interleaving of lua_execute with its watcher thread the   *)
(* exit code is queried while the process handle is open, so that for a    *)
(* child that has exited the value returned is the child's exit code,      *)
(* never the initial -1.                                                   *)
C24_QueryOnOpenHandle ==
    last.op = "GetExitCodeProcess" =>
        /\ last.open
        /\ last.child = "exited" => proc_ret = "exit code"

(* C25: with a finite timeout a launched lua_execute eventually returns,   *)
(* even if the child never exits and never closes its stdout.              *)
C25_EventuallyReturns ==
    (epc = "read" /\ einput.timeout # INFINITE) ~> (epc = "returned")

(* C26: no handle is closed twice, and when lua_execute has returned every *)
(* handle it opened has been closed exactly once, also when the launch or  *)
(* the creation of the watcher thread failed.                              *)
C26_HandlesClosedOnce ==
    /\ \A h \in Handles : closes[h] <= 1
    /\ epc = "returned" => \A h \in opened : closes[h] = 1

----------------------------------------------------------------------------
\* the bytes of the child's output that begin a run of bytes not in EOLS
RunStarts ==
    {i \in 1..Len(output) :
        /\ output[i] \notin EOLS
        /\ i = 1 \/ output[i - 1] \in EOLS}

\* the maximal run of bytes not in EOLS that begins at i
RunAt(i) ==
    LET e == CHOOSE j \in i..Len(output) :
                 /\ \A k \in i..j : output[k] \notin EOLS
                 /\ j = Len(output) \/ output[j + 1] \in EOLS
    IN  SubSeq(output, i, e)

====
